---- MODULE Spec2Model ----
(***************************************************************************)
(* Provider decoders of obsForge's preproc converters                      *)
(* (Tmsrad2Ioda, TmsBrightnessT2Ioda, TMStbr2Ioda): providerToIodaVars,     *)
(* the flag repacking, the per-scan time conversion, the channel selection *)
(* and the seeded thinning, modelled as state machines.                    *)
(***************************************************************************)
EXTENDS Integers, Sequences, FiniteSets, TLC

(***************************************************************************)
(* Bounds of the model.                                                    *)
(***************************************************************************)
MaxSpots == 2
MaxScans == 2
MaxChans == 2
\* the uniform stream is modelled on the grid {0, 1/Scale, ..., MaxDraw/Scale}
MaxDraw == 2
\* longest flag vector handed to createRepackedFlag
MaxFlagLen == 2

Scale == MaxDraw + 1

VARIABLES
  \* ---- providerToIodaVars ----
  provider,      \* which decoder class runs
  ncFile,        \* what the file holds: dimensions and which name is absent
  config,        \* fullConfig_: channel string and thinning.threshold
  seedStream,    \* the sequence of draws a generator seeded with 42 yields
  pc,            \* position in providerToIodaVars
  run,           \* 1 or 2: the call being executed on the same file
  dims,          \* dimspot, dimscan, dimchan
  buf,           \* the flat buffers read from the file
  epochTime,     \* per-scan epoch seconds
  channels,      \* parsed channel list
  genPos,        \* number of draws taken from gen since it was seeded
  mask,          \* Tmsrad2Ioda: mask[i][j], as the set of cells set to 1
  nlocs,         \* locations counted by the counting pass
  ij,            \* loop position <<i, j>> of the running pass
  loc,           \* row index of the fill pass
  iodaVars,      \* the table under construction / returned
  countSel,      \* cells for which the counting pass drew u > threshold
  fillSel,       \* cells the fill pass did not skip
  rowOf,         \* row index the fill pass used for each cell it kept
  outcome,       \* how the call ended: "running", "returned", "threw", "aborted"
  corrupt,       \* a write went outside the table's storage
  events,        \* what the call did to the file, the configuration and the log, in order
  srcRead,       \* <<cell, idx>> for every tb[idx] / flag[idx] the fill pass read
  prev,          \* what the first call produced
  \* ---- createRepackedFlag ----
  rawflag, flag1, new_flags, fi, flagCall, firstFlags,
  \* ---- time conversion ----
  tprov, tcomp, tm, tepoch, tpc,
  \* ---- TMStbr2Ioda: the loop that stores into the table ----
  tbrDims,       \* dim0 = "spots", dim1 = "scans"
  channelNumber, \* parsed channel list
  binning,       \* fullConfig_.has("binning")
  tbrK,          \* channel loop index k
  tbrIJ,         \* loop position <<i, j>>
  tbrLoc,        \* loc
  tbrWrites,     \* every assignment to a table column, in order
  tbrPc          \* position in the loop

decVars == <<provider, ncFile, config, seedStream, pc, run, dims, buf, epochTime,
             channels, genPos, mask, nlocs, ij, loc, iodaVars, countSel, fillSel,
             rowOf, outcome, corrupt, events, srcRead, prev>>
flagVars == <<rawflag, flag1, new_flags, fi, flagCall, firstFlags>>
timeVars == <<tprov, tcomp, tm, tepoch, tpc>>
tbrVars == <<tbrDims, channelNumber, binning, tbrK, tbrIJ, tbrLoc, tbrWrites, tbrPc>>
vars == <<decVars, flagVars, timeVars, tbrVars>>

(***************************************************************************)
(* Integer helpers.                                                        *)
(***************************************************************************)
Pow2(n) ==
  <<1, 2, 4, 8, 16, 32, 64, 128, 256, 512, 1024, 2048, 4096, 8192, 16384, 32768,
    65536>>[n + 1]

\* 1 << n on a 16-bit constant
Shl1(n) == Pow2(n) % 65536

\* bit n (0-based) of x
BitOf(x, n) == (x \div Pow2(n)) % 2

RECURSIVE BitAndFrom(_, _, _)
BitAndFrom(a, b, n) ==
  IF n = 16 THEN 0
  ELSE BitOf(a, n) * BitOf(b, n) * Pow2(n) + BitAndFrom(a, b, n + 1)

\* a & b on uint16_t
BitAnd(a, b) == BitAndFrom(a, b, 0)

RECURSIVE BitOrFrom(_, _, _)
BitOrFrom(a, b, n) ==
  IF n = 16 THEN 0
  ELSE (IF BitOf(a, n) = 1 \/ BitOf(b, n) = 1 THEN Pow2(n) ELSE 0)
       + BitOrFrom(a, b, n + 1)

\* a | b on uint16_t
BitOr(a, b) == BitOrFrom(a, b, 0)

RECURSIVE OrAll(_)
OrAll(s) == IF s = <<>> THEN 0 ELSE BitOr(Head(s), OrAll(Tail(s)))

(***************************************************************************)
(* createRepackedFlag (Tmsrad2Ioda.h:196-238).                              *)
(***************************************************************************)
ma_ICT   == Shl1(6)
ma_ND    == Shl1(7)
ma_Cold  == Shl1(8)
ma_Manv  == Shl1(12)
ma_SoInt == Shl1(13)
ma_LuInt == Shl1(14)
ma_RFI   == Shl1(3)
ma_ICTND == Shl1(4)
ma_AttQ  == Shl1(5)
ma_time  == Shl1(2)

MASK_ALL_NoManv ==
  OrAll(<<ma_time, ma_RFI, ma_ICTND, ma_AttQ, ma_ICT, ma_ND, ma_Cold, ma_SoInt, ma_LuInt>>)

MASK_ALL ==
  OrAll(<<ma_time, ma_RFI, ma_ICTND, ma_AttQ, ma_ICT, ma_ND, ma_Cold, ma_Manv,
          ma_SoInt, ma_LuInt>>)

\* the flag the loop body stores for one cell (lines 231-235)
RepackCell_And(raw, f1) == IF BitAnd(raw, MASK_ALL) # 0 /\ f1 # 0 THEN 1 ELSE 0

RepackCell(raw, f1) == IF BitAnd(raw, MASK_ALL) # 0 \/ f1 # 0 THEN 1 ELSE 0

\* the whole call, as used by providerToIodaVars (line 115)
createRepackedFlag(raw, f1) == [n \in DOMAIN raw |-> RepackCell(raw[n], f1[n])]

\* raw flag words the flag specification draws from: no bit, each single bit,
\* all reserved bits, all mapped bits, all bits
ReservedWord == 1 + 2 + 512 + 1024 + 2048 + 32768
RawWords == {0, ReservedWord, 65535 - ReservedWord, 65535} \cup {Pow2(n) : n \in 0..15}
Flag1Bytes == {0, 1, 255}

RECURSIVE SeqsUpTo(_, _)
SeqsUpTo(S, n) ==
  IF n = 0 THEN {<<>>}
  ELSE LET shorter == SeqsUpTo(S, n - 1)
       IN shorter \cup {Append(s, x) : s \in {q \in shorter : Len(q) = n - 1}, x \in S}

FlagCells == RawWords \X Flag1Bytes
\* cells that follow the first one in a longer vector
NeighbourCells == {<<0, 0>>, <<4, 0>>, <<0, 1>>}
FlagVectors ==
  {<<>>} \cup {<<c>> \o rest : c \in FlagCells,
                               rest \in SeqsUpTo(NeighbourCells, MaxFlagLen - 1)}

Reverse(s) == [n \in 1..Len(s) |-> s[Len(s) + 1 - n]]

FlagInit ==
  /\ \E cells \in FlagVectors :
       /\ rawflag = [n \in 1..Len(cells) |-> cells[n][1]]
       /\ flag1 = [n \in 1..Len(cells) |-> cells[n][2]]
  /\ new_flags = [n \in 1..Len(rawflag) |-> 0]   \* std::vector<int8_t>(size): zeroed
  /\ fi = 0
  /\ flagCall = 1
  /\ firstFlags = <<>>

\* one iteration of the loop at lines 230-236
RepackStep ==
  /\ fi < Len(rawflag)
  /\ new_flags' = [new_flags EXCEPT ![fi + 1] = RepackCell(rawflag[fi + 1], flag1[fi + 1])]
  /\ fi' = fi + 1
  /\ UNCHANGED <<rawflag, flag1, flagCall, firstFlags>>

FlagDone == fi = Len(rawflag)

\* a later call of the same member function, on the cells in reverse order
RepackAgain ==
  /\ FlagDone
  /\ flagCall = 1
  /\ firstFlags' = new_flags
  /\ rawflag' = Reverse(rawflag)
  /\ flag1' = Reverse(flag1)
  /\ new_flags' = [n \in 1..Len(rawflag) |-> 0]
  /\ fi' = 0
  /\ flagCall' = 2

(***************************************************************************)
(* Per-scan time conversion.                                               *)
(***************************************************************************)
IsLeap(y) == (y % 4 = 0 /\ y % 100 # 0) \/ y % 400 = 0

\* leap years in 1..y-1 of the proleptic Gregorian calendar
LeapsBefore(y) == ((y - 1) \div 4) - ((y - 1) \div 100) + ((y - 1) \div 400)

\* days before the first of month m0 (0-based) in a year
MonYday(leap, m0) ==
  LET common == <<0, 31, 59, 90, 120, 151, 181, 212, 243, 273, 304, 334>>
  IN common[m0 + 1] + (IF leap /\ m0 >= 2 THEN 1 ELSE 0)

\* A time_t value (64-bit seconds since 1970-01-01T00:00:00Z) is written as
\* [days, secs] with 0 <= secs < 86400, standing for days * 86400 + secs.
TimeT(days, secs) == [days |-> days + (secs \div 86400), secs |-> secs % 86400]

\* timegm: tm_year counts from 1900, tm_mon from 0; out-of-range months carry
\* into the year, and day, hour, minute and second are added linearly
timegm(t) ==
  LET year == 1900 + t.tm_year + (t.tm_mon \div 12)
      mon0 == t.tm_mon % 12
      days == 365 * (year - 1970) + (LeapsBefore(year) - LeapsBefore(1970))
              + MonYday(IsLeap(year), mon0) + (t.tm_mday - 1)
  IN TimeT(days, (t.tm_hour * 60 + t.tm_min) * 60 + t.tm_sec)

\* Tmsrad2Ioda.h:92-99
TmOf_Tmsrad(c) ==
  [tm_year |-> c.year - 1900, tm_mon |-> c.month - 1, tm_mday |-> c.day,
   tm_hour |-> c.hour, tm_min |-> c.minute,
   tm_sec |-> IF c.second = 60 THEN 59 ELSE c.second]

\* TmsBrightnessT2Ioda (CMakeLists.txt:150-157)
TmOf_TmsBrightnessT(c) ==
  [tm_year |-> c.year - 1970, tm_mon |-> c.month - 1, tm_mday |-> c.day - 1,
   tm_hour |-> c.hour, tm_min |-> c.minute,
   tm_sec |-> IF c.second = 60 THEN 59 ELSE c.second]

\* TMStbr2Ioda.h:85-91
TmOf_TMStbr(c) ==
  [tm_year |-> c.year - 1970, tm_mon |-> c.month - 1, tm_mday |-> c.day - 1,
   tm_hour |-> c.hour, tm_min |-> c.minute, tm_sec |-> c.second]

TmOf(p, c) ==
  CASE p = "Tmsrad2Ioda" -> TmOf_Tmsrad(c)
    [] p = "TmsBrightnessT2Ioda" -> TmOf_TmsBrightnessT(c)
    [] p = "TMStbr2Ioda" -> TmOf_TMStbr(c)

\* epochTime[j] of a decoder for one scan's six components
EpochOf(p, c) == timegm(TmOf(p, c))

MonthLen(y, m) ==
  CASE m \in {4, 6, 9, 11} -> 30
    [] m = 2 -> IF IsLeap(y) THEN 29 ELSE 28
    [] OTHER -> 31

TimeProviders == {"Tmsrad2Ioda", "TmsBrightnessT2Ioda", "TMStbr2Ioda"}
TimeYears == {1970, 1971, 1972, 1999, 2000, 2024, 2100}
TimeInputs ==
  {[year |-> y, month |-> m, day |-> d, hour |-> h, minute |-> mi, second |-> s] :
     y \in TimeYears, m \in 1..12, d \in {1, 28, 29, 31}, h \in {0, 23},
     mi \in {0, 59}, s \in {0, 59, 60}}

ValidDate(c) == c.day <= MonthLen(c.year, c.month)

TimeInit ==
  /\ tprov \in TimeProviders
  /\ tcomp \in TimeInputs
  /\ tm = [tm_year |-> 0, tm_mon |-> 0, tm_mday |-> 0, tm_hour |-> 0, tm_min |-> 0,
            tm_sec |-> 0]                       \* std::tm t{}
  /\ tepoch = TimeT(0, 0)
  /\ tpc = "read"

\* fill the std::tm from the scan's components
BuildTm ==
  /\ tpc = "read"
  /\ tm' = TmOf(tprov, tcomp)
  /\ tpc' = "tm"
  /\ UNCHANGED <<tprov, tcomp, tepoch>>

\* epochTime[j] = static_cast<double>(timegm(&t))
CallTimegm ==
  /\ tpc = "tm"
  /\ tepoch' = timegm(tm)
  /\ tpc' = "done"
  /\ UNCHANGED <<tprov, tcomp, tm>>

(***************************************************************************)
(* The input file and the configuration.                                   *)
(***************************************************************************)
Providers == {"Tmsrad2Ioda", "TmsBrightnessT2Ioda"}

\* values stored in the file at a flat index
FileLat(flat) == 10 + flat
FileLon(flat) == 100 + flat
FileTb(idx) == 200 + idx
FileCqf(idx) == <<0, 4, 1, 64>>[(idx % 4) + 1]
FileSdrtx(idx) == IF idx % 3 = 2 THEN 1 ELSE 0
FileTime(j) ==
  [year |-> 2024, month |-> 2, day |-> 28 + (j % 2), hour |-> 23, minute |-> 59,
   second |-> 59 + (j % 2)]

floatMetadataNames ==
  <<"lunarAzimuthAngle", "lunarZenithAngle", "sensorAzimuthAngle", "sensorViewAngle",
    "sensorZenithAngle", "solarAzimuthAngle", "solarZenithAngle">>

\* file variable behind each metadata name, and the values it holds
AngleVars_Swapped ==
  <<"lunar_azimuth_angle", "lunar_zenith_angle", "sensor_azimuth_angle",
    "sensor_zenith_angle", "sensor_view_angle", "solar_azimuth_angle",
    "solar_zenith_angle">>
AngleVars ==
  <<"lunar_azimuth_angle", "lunar_zenith_angle", "sensor_azimuth_angle",
    "sensor_view_angle", "sensor_zenith_angle", "solar_azimuth_angle",
    "solar_zenith_angle">>
FileAngle(n, flat) == 1000 * n + flat

DimNames == {"spots", "scans", "channels"}
RequiredVars(p) ==
  {"longitude", "latitude", "brightness_temperature", "combinedQualityFlag",
   "Year", "Month", "Day", "Hour", "Minute", "Second"}
  \cup (IF p = "Tmsrad2Ioda" THEN {"flagSDRTX"} ELSE {})
\* names the decoder looks up with getVar
ReadVarNames(p) ==
  RequiredVars(p)
  \cup (IF p = "Tmsrad2Ioda" THEN {AngleVars[n] : n \in 1..Len(AngleVars)} ELSE {})

\* what is wrong with a file: nothing; it cannot be opened; it can be opened
\* once and is gone at the next open; or one name is absent from it
Unopenable == {"unreadable", "vanishes"}
Defects == {"none", "spots", "brightness_temperature", "sensor_view_angle"} \cup Unopenable

Files ==
  {[spots |-> a, scans |-> b, channels |-> MaxChans, defect |-> x] :
     a \in 1..MaxSpots, b \in 1..MaxScans, x \in Defects}

\* configured channel strings, one character per element
ChannelStrings ==
  { <<"1">>, <<"2", ",", "2", ",", "1">>, <<"0">>, <<"x">>, <<"1", "x">>, <<>> }

\* thinning.threshold, in units of 1/Scale
Thresholds == {-1, 0, 1, Scale, Scale + 1}

Configs == {[channel |-> c, threshold |-> t] : c \in ChannelStrings, t \in Thresholds}

\* The stream a seeded generator yields is a fixed sequence of values of
\* [0, 1); it is modelled, in units of 1/Scale, as one member of the family of
\* sequences n |-> (a*n + b) mod Scale.
Streams == {[a |-> a, b |-> b] : a \in 0..MaxDraw, b \in 0..MaxDraw}

Draw_Carried(n) ==
  (seedStream.a * (n + (run - 1) * ncFile.spots * ncFile.scans) + seedStream.b) % Scale
\* the n-th draw (n = 0, 1, ...) of dis(gen) after gen was seeded with 42
Draw(n) == (seedStream.a * n + seedStream.b) % Scale

(***************************************************************************)
(* Channel selection: std::getline(ss, substr, ',') and std::stoi.          *)
(***************************************************************************)
\* the segments getline yields: a final empty segment is not produced
RECURSIVE GetLines(_, _)
GetLines(str, cur) ==
  IF str = <<>> THEN (IF cur = <<>> THEN <<>> ELSE <<cur>>)
  ELSE IF Head(str) = "," THEN <<cur>> \o GetLines(Tail(str), <<>>)
  ELSE GetLines(Tail(str), Append(cur, Head(str)))

Digits == <<"0", "1", "2", "3", "4", "5", "6", "7", "8", "9">>
IsDigit(ch) == \E d \in 1..10 : Digits[d] = ch
DigitVal(ch) == (CHOOSE d \in 1..10 : Digits[d] = ch) - 1

RECURSIVE SkipSpace(_)
SkipSpace(tok) == IF tok # <<>> /\ Head(tok) = " " THEN SkipSpace(Tail(tok)) ELSE tok

RECURSIVE DigitRun(_, _)
DigitRun(tok, acc) ==
  IF tok # <<>> /\ IsDigit(Head(tok)) THEN DigitRun(Tail(tok), 10 * acc + DigitVal(Head(tok)))
  ELSE acc

\* std::stoi: leading blanks, an optional sign, then digits up to the first
\* other character; [ok |-> FALSE] stands for std::invalid_argument
stoi(tok) ==
  LET t1 == SkipSpace(tok)
      neg == t1 # <<>> /\ Head(t1) = "-"
      t2 == IF t1 # <<>> /\ Head(t1) \in {"-", "+"} THEN Tail(t1) ELSE t1
  IN IF t2 = <<>> \/ ~IsDigit(Head(t2)) THEN [ok |-> FALSE, value |-> 0]
     ELSE [ok |-> TRUE, value |-> IF neg THEN 0 - DigitRun(t2, 0) ELSE DigitRun(t2, 0)]

\* the loop at Tmsrad2Ioda.h:125-128: the first bad token throws
ParseChannelList(str) ==
  LET toks == GetLines(str, <<>>)
      vals == [n \in 1..Len(toks) |-> stoi(toks[n])]
  IN [ok |-> \A n \in 1..Len(toks) : vals[n].ok,
      channels |-> [n \in 1..Len(toks) |-> vals[n].value]]

(***************************************************************************)
(* The observation table, IodaVars.                                        *)
(***************************************************************************)
\* content of an entry no statement has assigned
Unset == -999
UnsetTime == [days |-> Unset, secs |-> 0]
\* channel count of a table constructed without one
DefaultChannels == 1
\* values a read outside a buffer can yield
Indeterminate == {-1, -2}

Col(n, v) == [x \in 0..(n - 1) |-> v]
Size(col) == Cardinality(DOMAIN col)

\* IodaVars(nobs, nchan, floatMetadataNames, intMetadataNames)
IodaVars(nobs, nchan, fmnames) ==
  [location |-> nobs, channel |-> nchan,
   latitude |-> Col(nobs, Unset), longitude |-> Col(nobs, Unset),
   datetime |-> Col(nobs, UnsetTime),
   obsVal |-> Col(nobs * nchan, Unset), obsError |-> Col(nobs * nchan, Unset),
   preQc |-> Col(nobs * nchan, Unset),
   channelValues |-> Col(nchan, Unset),
   floatMetadata |-> Col(nobs, [n \in 1..Len(fmnames) |-> Unset]),
   floatMetadataName |-> fmnames,
   referenceDate |-> ""]

\* TmsBrightnessT2Ioda: construct without a channel count, then set channel_
\* and resize the three per-cell columns (CMakeLists.txt:210-216)
ResizedForChannels(t, nchan) ==
  [t EXCEPT !.channel = nchan,
            !.obsVal = Col(t.location * nchan, Unset),
            !.obsError = Col(t.location * nchan, Unset),
            !.preQc = Col(t.location * nchan, Unset)]

EmptyTable_OneRow(p) == IodaVars(1, 1, <<>>)
EmptyTable(p) ==
  IF p = "Tmsrad2Ioda" THEN IodaVars(0, 1, <<>>) ELSE IodaVars(0, DefaultChannels, <<>>)

(***************************************************************************)
(* providerToIodaVars.                                                     *)
(***************************************************************************)
NoDims == [spot |-> 0, scan |-> 0, chan |-> 0]
NoBuf ==
  [lon |-> <<>>, lat |-> <<>>, tb |-> <<>>, angle |-> <<>>, time |-> <<>>,
   cqf |-> <<>>, flagSDRTX |-> <<>>, comflag |-> <<>>]
NoPrev == [outcome |-> "none"]

\* locals of a call before its first statement
Entry ==
  /\ pc = "start"
  /\ dims = NoDims
  /\ buf = NoBuf
  /\ epochTime = <<>>
  /\ channels = <<>>
  /\ genPos = 0
  /\ mask = {}
  /\ nlocs = 0
  /\ ij = <<0, 0>>
  /\ loc = 0
  /\ iodaVars = IodaVars(0, 0, <<>>)
  /\ countSel = {}
  /\ fillSel = {}
  /\ rowOf = <<>>
  /\ outcome = "running"
  /\ corrupt = FALSE
  /\ events = <<>>
  /\ srcRead = {}

DecInit ==
  /\ provider \in Providers
  /\ ncFile \in Files
  /\ config \in Configs
  /\ seedStream \in Streams
  /\ run = 1
  /\ prev = NoPrev
  /\ Entry

locals == <<dims, buf, epochTime, channels, genPos, mask, nlocs, ij, loc, iodaVars,
            countSel, fillSel, rowOf, corrupt>>
inputs == <<provider, ncFile, config, seedStream, run, prev>>

\* the call goes on to do evs, in this order
Does(evs) == events' = events \o evs

\* an exception leaves providerToIodaVars
Throw ==
  /\ pc' = "done"
  /\ outcome' = "threw"

\* the try block: a first open that is closed again at once; a failure is
\* caught, logged as a warning and answered with the empty table
TryOpen ==
  /\ pc = "start"
  /\ IF ncFile.defect = "unreadable"
     THEN /\ iodaVars' = EmptyTable(provider)
          /\ pc' = "done"
          /\ outcome' = "returned"
     ELSE /\ pc' = "open"
          /\ UNCHANGED <<iodaVars, outcome>>
  /\ UNCHANGED <<dims, buf, epochTime, channels, genPos, mask, nlocs, ij, loc,
                 countSel, fillSel, rowOf, corrupt>>
  /\ Does(IF ncFile.defect = "unreadable" THEN <<"open", "NcException", "warning">>
                                          ELSE <<"open">>)
  /\ UNCHANGED srcRead
  /\ UNCHANGED inputs

\* the second open, outside the try block
Open ==
  /\ pc = "open"
  /\ IF ncFile.defect = "vanishes"
     THEN Throw
     ELSE pc' = "dims" /\ UNCHANGED outcome
  /\ UNCHANGED locals
  /\ Does(IF ncFile.defect = "vanishes" THEN <<"open", "NcException">> ELSE <<"open">>)
  /\ UNCHANGED srcRead
  /\ UNCHANGED inputs

\* getDim(...).getSize() for spots, scans, channels
ReadDims ==
  /\ pc = "dims"
  /\ IF ncFile.defect \in DimNames
     THEN Throw /\ UNCHANGED dims
     ELSE /\ dims' = [spot |-> ncFile.spots, scan |-> ncFile.scans,
                      chan |-> ncFile.channels]
          /\ pc' = "vars"
          /\ UNCHANGED outcome
  /\ UNCHANGED <<buf, epochTime, channels, genPos, mask, nlocs, ij, loc, iodaVars,
                 countSel, fillSel, rowOf, corrupt>>
  /\ Does(IF ncFile.defect \in DimNames THEN <<"getDim", "NcException">>
                                         ELSE <<"getDim">>)
  /\ UNCHANGED srcRead
  /\ UNCHANGED inputs

NCells == dims.spot * dims.scan

\* the flat buffers, as getVar fills them
BuffersRead ==
  [lon |-> [f \in 0..(NCells - 1) |-> FileLon(f)],
   lat |-> [f \in 0..(NCells - 1) |-> FileLat(f)],
   tb |-> [x \in 0..(NCells * dims.chan - 1) |-> FileTb(x)],
   angle |-> IF provider = "Tmsrad2Ioda"
             THEN [n \in 1..Len(AngleVars) |-> [f \in 0..(NCells - 1) |-> FileAngle(n, f)]]
             ELSE <<>>,
   time |-> [j \in 0..(dims.scan - 1) |-> FileTime(j)],
   cqf |-> IF provider = "TmsBrightnessT2Ioda"
           THEN [x \in 0..(NCells * dims.chan - 1) |-> FileCqf(x)]
           ELSE <<>>,
   flagSDRTX |-> <<>>,
   comflag |-> <<>>]

\* longitude, latitude, brightness_temperature, the angles and the six time
\* variables (and, in TmsBrightnessT2Ioda, combinedQualityFlag)
ReadVars ==
  /\ pc = "vars"
  /\ IF ncFile.defect \in ReadVarNames(provider)
     THEN Throw /\ UNCHANGED buf
     ELSE /\ buf' = BuffersRead
          /\ pc' = "time"
          /\ UNCHANGED outcome
  /\ UNCHANGED <<dims, epochTime, channels, genPos, mask, nlocs, ij, loc, iodaVars,
                 countSel, fillSel, rowOf, corrupt>>
  /\ Does(IF ncFile.defect \in ReadVarNames(provider) THEN <<"getVar", "NcException">>
                                                       ELSE <<"getVar">>)
  /\ UNCHANGED srcRead
  /\ UNCHANGED inputs

BuildEpoch_FirstScan ==
  /\ pc = "time"
  /\ epochTime' = [j \in 0..(dims.scan - 1) |-> EpochOf(provider, buf.time[0])]
  /\ pc' = IF provider = "Tmsrad2Ioda" THEN "flags" ELSE "chan"
  /\ UNCHANGED <<dims, buf, channels, genPos, mask, nlocs, ij, loc, iodaVars,
                 countSel, fillSel, rowOf, corrupt, outcome>>
  /\ UNCHANGED <<events, srcRead>>
  /\ UNCHANGED inputs
\* the loop over scans that fills epochTime
BuildEpoch ==
  /\ pc = "time"
  /\ epochTime' = [j \in 0..(dims.scan - 1) |-> EpochOf(provider, buf.time[j])]
  /\ pc' = IF provider = "Tmsrad2Ioda" THEN "flags" ELSE "chan"
  /\ UNCHANGED <<dims, buf, channels, genPos, mask, nlocs, ij, loc, iodaVars,
                 countSel, fillSel, rowOf, corrupt, outcome>>
  /\ UNCHANGED <<events, srcRead>>
  /\ UNCHANGED inputs

\* Tmsrad2Ioda: read combinedQualityFlag and flagSDRTX, repack them
ReadFlags ==
  /\ pc = "flags"
  /\ LET cqf == [x \in 0..(NCells * dims.chan - 1) |-> FileCqf(x)]
         sdr == [x \in 0..(NCells * dims.chan - 1) |-> FileSdrtx(x)]
     IN buf' = [buf EXCEPT !.cqf = cqf, !.flagSDRTX = sdr,
                           !.comflag = createRepackedFlag(cqf, sdr)]
  /\ pc' = "chan"
  /\ UNCHANGED <<dims, epochTime, channels, genPos, mask, nlocs, ij, loc, iodaVars,
                 countSel, fillSel, rowOf, corrupt, outcome>>
  /\ Does(<<"getVar">>)
  /\ UNCHANGED srcRead
  /\ UNCHANGED inputs

\* channel selection: split the configured string and convert each token
ParseChannels ==
  /\ pc = "chan"
  /\ LET r == ParseChannelList(config.channel)
     IN IF r.ok
        THEN channels' = r.channels /\ pc' = "thin" /\ UNCHANGED outcome
        ELSE Throw /\ UNCHANGED channels
  /\ UNCHANGED <<dims, buf, epochTime, genPos, mask, nlocs, ij, loc, iodaVars,
                 countSel, fillSel, rowOf, corrupt>>
  /\ Does(IF ParseChannelList(config.channel).ok
          THEN <<"get channel">> ELSE <<"get channel", "invalid_argument">>)
  /\ UNCHANGED srcRead
  /\ UNCHANGED inputs

\* std::mt19937 gen(42), the empty mask and nlocs = 0
SeedGen ==
  /\ pc = "thin"
  /\ genPos' = 0
  /\ mask' = {}
  /\ nlocs' = 0
  /\ ij' = <<0, 0>>
  /\ pc' = "count"
  /\ UNCHANGED <<dims, buf, epochTime, channels, loc, iodaVars, countSel, fillSel,
                 rowOf, corrupt, outcome>>
  /\ Does(<<"get thinning.threshold">>)
  /\ UNCHANGED srcRead
  /\ UNCHANGED inputs

\* the for (i) for (j) traversal: scan is the inner index
NextCell(c) == IF c[2] + 1 < dims.scan THEN <<c[1], c[2] + 1>> ELSE <<c[1] + 1, 0>>
InGrid(c) == c[1] < dims.spot

\* dis(gen) > thinThreshold
Keeps_Below(u, t) == u < t
Keeps_Geq(u, t) == u >= t
Keeps(u, t) == u > t

\* ++nlocs
Counted_Twice(n) == n + 2
Counted(n) == n + 1

\* one cell of the counting pass
CountStep ==
  /\ pc = "count"
  /\ InGrid(ij)
  /\ genPos' = genPos + 1
  /\ IF Keeps(Draw(genPos), config.threshold)
     THEN /\ mask' = IF provider = "Tmsrad2Ioda" THEN mask \cup {ij} ELSE mask
          /\ nlocs' = Counted(nlocs)
          /\ countSel' = countSel \cup {ij}
     ELSE UNCHANGED <<mask, nlocs, countSel>>
  /\ ij' = NextCell(ij)
  /\ UNCHANGED <<pc, dims, buf, epochTime, channels, loc, iodaVars, fillSel, rowOf,
                 corrupt, outcome>>
  /\ UNCHANGED <<events, srcRead>>
  /\ UNCHANGED inputs

nchan == Len(channels)

\* the table as constructed by each decoder once nlocs is known
Allocated ==
  LET t == IF provider = "Tmsrad2Ioda"
           THEN IodaVars(nlocs, nchan, floatMetadataNames)
           ELSE ResizedForChannels(IodaVars(nlocs, DefaultChannels, <<>>), nchan)
  IN [t EXCEPT !.referenceDate = "seconds since 1970-01-01T00:00:00Z"]

Allocate ==
  /\ pc = "count"
  /\ ~InGrid(ij)
  /\ iodaVars' = Allocated
  /\ pc' = "chanvals"
  /\ UNCHANGED <<dims, buf, epochTime, channels, genPos, mask, nlocs, ij, loc,
                 countSel, fillSel, rowOf, corrupt, outcome>>
  /\ UNCHANGED <<events, srcRead>>
  /\ UNCHANGED inputs

\* outcomes of a write past the end of a column: the bounds assertion of a
\* checked build stops the process, or the write lands outside the table
OutsideWrite == {"aborted", "heap"}

\* channelValues_(k) = channels[k] for k < nchan
AssignChannels ==
  /\ pc = "chanvals"
  /\ \E o \in (IF nchan > Size(iodaVars.channelValues) THEN OutsideWrite ELSE {"ok"}) :
       /\ iodaVars' = [iodaVars EXCEPT !.channelValues =
                         [k \in DOMAIN @ |-> IF k < nchan THEN channels[k + 1] ELSE @[k]]]
       /\ IF o = "aborted"
          THEN pc' = "done" /\ outcome' = "aborted" /\ UNCHANGED corrupt
          ELSE /\ pc' = "fill"
               /\ corrupt' = (corrupt \/ o = "heap")
               /\ UNCHANGED outcome
  /\ loc' = 0
  /\ ij' = <<0, 0>>
  /\ UNCHANGED <<dims, buf, epochTime, channels, genPos, mask, nlocs, countSel,
                 fillSel, rowOf>>
  /\ UNCHANGED <<events, srcRead>>
  /\ UNCHANGED inputs

\* i*dimscan + j
FlatIdx(c) == c[1] * dims.scan + c[2]

\* size_t idx = (i*dimscan + j)*dimchan + ch, with ch = channels[k] - 1
SrcIdx(c, chn) == FlatIdx(c) * dims.chan + (chn - 1)

\* nchan*loc + k
DstIdx(l, k) == nchan * l + k

\* b[idx]; an index outside the buffer yields the indeterminate value g
ReadAt(b, idx, g) == IF idx \in DOMAIN b THEN b[idx] ELSE g

OutsideRead(c) == \E k \in 1..nchan : SrcIdx(c, channels[k]) \notin DOMAIN buf.tb

\* the per-(location, channel) columns after row l was written from cell c
PerCell(col, c, l, src, g) ==
  [x \in DOMAIN col |->
     IF \E k \in 0..(nchan - 1) : x = DstIdx(l, k)
     THEN LET k == CHOOSE k \in 0..(nchan - 1) : x = DstIdx(l, k)
          IN ReadAt(src, SrcIdx(c, channels[k + 1]), g)
     ELSE col[x]]

\* the table after the body of the fill loop ran for cell c with loc = l
RowWritten(t, c, l, g) ==
  LET base == [t EXCEPT !.latitude[l] = buf.lat[FlatIdx(c)],
                        !.longitude[l] = buf.lon[FlatIdx(c)],
                        !.datetime[l] = epochTime[c[2]],
                        !.obsVal = PerCell(@, c, l, buf.tb, g)]
  IN IF provider = "Tmsrad2Ioda"
     THEN [base EXCEPT !.floatMetadata[l] =
                         [n \in 1..Len(AngleVars) |-> buf.angle[n][FlatIdx(c)]],
                       !.preQc = PerCell(@, c, l, buf.comflag, g)]
     ELSE [base EXCEPT !.obsError =
                         [x \in DOMAIN @ |->
                            IF \E k \in 0..(nchan - 1) : x = DstIdx(l, k) THEN 2 ELSE @[x]],
                       !.preQc = PerCell(@, c, l, buf.cqf, g)]

\* whether the fill pass keeps the cell: Tmsrad2Ioda reads the mask,
\* TmsBrightnessT2Ioda draws again from gen
FillKeeps(c) ==
  IF provider = "Tmsrad2Ioda" THEN c \in mask
  ELSE ~(Draw(genPos) <= config.threshold)

\* the flat indices the channel loop reads for cell c
SrcReads(c) == {<<c, SrcIdx(c, channels[k])>> : k \in 1..nchan}

\* one cell of the fill pass
FillStep ==
  /\ pc = "fill"
  /\ InGrid(ij)
  /\ genPos' = IF provider = "Tmsrad2Ioda" THEN genPos ELSE genPos + 1
  /\ ij' = NextCell(ij)
  /\ IF ~FillKeeps(ij)
     THEN UNCHANGED <<pc, loc, iodaVars, fillSel, rowOf, corrupt, outcome, srcRead>>
     ELSE /\ fillSel' = fillSel \cup {ij}
          /\ rowOf' = Append(rowOf, <<ij, loc>>)
          /\ loc' = loc + 1
          /\ IF loc < iodaVars.location
             THEN /\ \E g \in (IF OutsideRead(ij) THEN Indeterminate ELSE {Unset}) :
                       iodaVars' = RowWritten(iodaVars, ij, loc, g)
                  /\ srcRead' = srcRead \cup SrcReads(ij)
                  /\ UNCHANGED <<pc, corrupt, outcome>>
             ELSE /\ \E o \in OutsideWrite :
                       IF o = "aborted"
                       THEN /\ pc' = "done" /\ outcome' = "aborted"
                            /\ UNCHANGED <<corrupt, srcRead>>
                       ELSE /\ corrupt' = TRUE
                            /\ srcRead' = srcRead \cup SrcReads(ij)
                            /\ UNCHANGED <<pc, outcome>>
                  /\ UNCHANGED iodaVars
  /\ UNCHANGED <<dims, buf, epochTime, channels, mask, nlocs, countSel>>
  /\ UNCHANGED events
  /\ UNCHANGED inputs

\* return iodaVars
Return ==
  /\ pc = "fill"
  /\ ~InGrid(ij)
  /\ pc' = "done"
  /\ outcome' = "returned"
  /\ UNCHANGED locals
  /\ UNCHANGED <<events, srcRead>>
  /\ UNCHANGED inputs

\* what a call leaves behind
Result ==
  [outcome |-> outcome, iodaVars |-> iodaVars, countSel |-> countSel,
   fillSel |-> fillSel, rowOf |-> rowOf, corrupt |-> corrupt]

\* the same converter is run once more on the same file and configuration
SecondCall ==
  /\ pc = "done"
  /\ run = 1
  /\ prev' = Result
  /\ run' = 2
  /\ pc' = "start"
  /\ dims' = NoDims
  /\ buf' = NoBuf
  /\ epochTime' = <<>>
  /\ channels' = <<>>
  /\ genPos' = 0
  /\ mask' = {}
  /\ nlocs' = 0
  /\ ij' = <<0, 0>>
  /\ loc' = 0
  /\ iodaVars' = IodaVars(0, 0, <<>>)
  /\ countSel' = {}
  /\ fillSel' = {}
  /\ rowOf' = <<>>
  /\ outcome' = "running"
  /\ corrupt' = FALSE
  /\ events' = <<>>
  /\ srcRead' = {}
  /\ UNCHANGED <<provider, ncFile, config, seedStream>>

\* variables of the other specifications, at rest
\* ---------------------------------------------------------------------
\* TMStbr2Ioda::providerToIodaVars, "Store into eigen arrays"
\* ---------------------------------------------------------------------
TbrChannelLists ==
  {ParseChannelList(s).channels : s \in {c \in ChannelStrings : ParseChannelList(c).ok}}

\* the state on reaching the loop
TbrInit ==
  /\ tbrDims \in [dim0 : 0..MaxSpots, dim1 : 0..MaxScans]
  /\ channelNumber \in TbrChannelLists
  /\ binning \in BOOLEAN
  /\ tbrK = 0 /\ tbrIJ = <<0, 0>> /\ tbrLoc = 0
  /\ tbrWrites = <<>>
  /\ tbrPc = "channel"

TbrNchan == Len(channelNumber)

TbrWrite(column, at, src) ==
  [column |-> column, at |-> at, k |-> tbrK, i |-> tbrIJ[1], j |-> tbrIJ[2], src |-> src]

\* for (k < nchan): channelValues_(k) = channelNumber[k]; int loc(0);
TbrChannel ==
  /\ tbrPc = "channel" /\ tbrK < TbrNchan
  /\ tbrWrites' = Append(tbrWrites,
                         [column |-> "channelValues", at |-> tbrK, k |-> tbrK, i |-> 0, j |-> 0,
                          src |-> <<tbrK>>])
  /\ tbrLoc' = 0
  /\ tbrIJ' = <<0, 0>>
  /\ tbrPc' = IF 0 < tbrDims.dim1 /\ 0 < tbrDims.dim0 THEN "cell" ELSE "log"
  /\ UNCHANGED <<tbrDims, channelNumber, binning, tbrK>>

\* the body of for (i < dim1) for (j < dim0), and the step to the next j, i
TbrCell ==
  /\ tbrPc = "cell"
  /\ LET i == tbrIJ[1]
         j == tbrIJ[2]
         at == TbrNchan * tbrLoc + tbrK
     IN /\ tbrWrites' = tbrWrites \o
             << TbrWrite("longitude", tbrLoc, <<tbrLoc>>),
                TbrWrite("latitude", tbrLoc, <<i, j>>),
                TbrWrite("datetime", tbrLoc, <<>>),
                TbrWrite("obsVal", at, <<i, j>>),
                TbrWrite("preQc", at, IF binning THEN <<>> ELSE <<i, j>>),
                TbrWrite("obsError", at, <<i, j>>) >>
        /\ tbrLoc' = tbrLoc + 1
        /\ IF j + 1 < tbrDims.dim0
             THEN tbrIJ' = <<i, j + 1>> /\ tbrPc' = "cell"
             ELSE /\ tbrIJ' = <<i + 1, 0>>
                  /\ tbrPc' = IF i + 1 < tbrDims.dim1 THEN "cell" ELSE "log"
  /\ UNCHANGED <<tbrDims, channelNumber, binning, tbrK>>

\* " total location " << loc, then k++
TbrLog ==
  /\ tbrPc = "log"
  /\ tbrK' = tbrK + 1
  /\ tbrPc' = "channel"
  /\ UNCHANGED <<tbrDims, channelNumber, binning, tbrIJ, tbrLoc, tbrWrites>>

\* k < nchan fails
TbrDone ==
  /\ tbrPc = "channel" /\ ~(tbrK < TbrNchan)
  /\ tbrPc' = "done"
  /\ UNCHANGED <<tbrDims, channelNumber, binning, tbrK, tbrIJ, tbrLoc, tbrWrites>>

TbrIdle ==
  /\ tbrDims = <<>> /\ channelNumber = <<>> /\ binning = FALSE
  /\ tbrK = 0 /\ tbrIJ = <<0, 0>> /\ tbrLoc = 0 /\ tbrWrites = <<>> /\ tbrPc = "idle"
FlagIdle ==
  /\ rawflag = <<>> /\ flag1 = <<>> /\ new_flags = <<>> /\ fi = 0
  /\ flagCall = 0 /\ firstFlags = <<>>
TimeIdle ==
  /\ tprov = "none" /\ tcomp = <<>> /\ tm = <<>> /\ tepoch = TimeT(0, 0) /\ tpc = "idle"
DecIdle ==
  /\ provider = "none" /\ ncFile = <<>> /\ config = <<>> /\ seedStream = <<>>
  /\ run = 0 /\ prev = NoPrev /\ Entry

Init == DecInit /\ FlagIdle /\ TimeIdle /\ TbrIdle

Next ==
  /\ \/ TryOpen
     \/ Open
     \/ ReadDims
     \/ ReadVars
     \/ BuildEpoch
     \/ ReadFlags
     \/ ParseChannels
     \/ SeedGen
     \/ CountStep
     \/ Allocate
     \/ AssignChannels
     \/ FillStep
     \/ Return
     \/ SecondCall
  /\ UNCHANGED <<flagVars, timeVars, tbrVars>>

Spec == Init /\ [][Next]_vars

\* createRepackedFlag on its own
InitFlag == FlagInit /\ DecIdle /\ TimeIdle /\ TbrIdle
NextFlag == (RepackStep \/ RepackAgain) /\ UNCHANGED <<decVars, timeVars, tbrVars>>
SpecFlag == InitFlag /\ [][NextFlag]_vars

\* the time conversion on its own
InitTime == TimeInit /\ DecIdle /\ FlagIdle /\ TbrIdle
NextTime == (BuildTm \/ CallTimegm) /\ UNCHANGED <<decVars, flagVars, tbrVars>>
SpecTime == InitTime /\ [][NextTime]_vars

\* the storing loop of TMStbr2Ioda on its own
InitTbr == TbrInit /\ DecIdle /\ FlagIdle /\ TimeIdle
NextTbr ==
  /\ \/ TbrChannel
     \/ TbrCell
     \/ TbrLog
     \/ TbrDone
  /\ UNCHANGED <<decVars, flagVars, timeVars>>
SpecTbr == InitTbr /\ [][NextTbr]_vars

(***************************************************************************)
(* Properties of providerToIodaVars.                                       *)
(***************************************************************************)
Returned == pc = "done" /\ outcome = "returned"
\* the call went through both passes and returned the table it filled
Decoded == Returned /\ ncFile.defect \notin Unopenable
\* the counting pass is over and the table exists
CountPassDone == pc \in {"chanvals", "fill"} \/ Decoded

GridCells == {<<i, j>> : i \in 0..(dims.spot - 1), j \in 0..(dims.scan - 1)}
\* spot-major, scan-minor order
Precedes(c, d) == c[1] < d[1] \/ (c[1] = d[1] /\ c[2] < d[2])
RankIn(c, S) == Cardinality({d \in S : Precedes(d, c)})
ChannelsInRange == \A k \in 1..nchan : channels[k] \in 1..dims.chan

\* C1: in every decoder, the cells the counting pass selects are the cells the
\* fill pass selects.
C1_SameMaskInBothPasses == Decoded => countSel = fillSel

\* the quality flag the table is to carry for a flat source index
QcAt(idx) ==
  IF provider = "Tmsrad2Ioda"
  THEN (IF (\E b \in {2, 3, 4, 5, 6, 7, 8, 12, 13, 14} : BitOf(FileCqf(idx), b) = 1)
           \/ FileSdrtx(idx) # 0 THEN 1 ELSE 0)
  ELSE FileCqf(idx)

\* C2: for the loc-th retained cell (i, j) in grid order and the k-th configured
\* channel c, obsValue[channelCount*loc + k] is brightness_temperature at
\* (i*scanCount + j)*channelsInFile + (c-1), and preQc at that table index comes
\* from the quality flag at that same source index.
C2_CellValuesFromOwnIndex ==
  (Decoded /\ ChannelsInRange) =>
    \A c \in countSel : \A k \in 0..(nchan - 1) :
      LET l == RankIn(c, countSel)
          src == (c[1] * ncFile.scans + c[2]) * ncFile.channels + (channels[k + 1] - 1)
          dst == nchan * l + k
      IN /\ dst \in DOMAIN iodaVars.obsVal
         /\ iodaVars.obsVal[dst] = FileTb(src)
         /\ iodaVars.preQc[dst] = QcAt(src)

\* C3: every returned table, the empty one included, has latitude, longitude
\* and datetime of length locationCount and obsValue and preQc of length
\* locationCount*channelCount, locationCount being the number of cells the
\* thinner kept.
C3_TableShape ==
  Returned =>
    /\ iodaVars.location = Cardinality(countSel)
    /\ Size(iodaVars.latitude) = iodaVars.location
    /\ Size(iodaVars.longitude) = iodaVars.location
    /\ Size(iodaVars.datetime) = iodaVars.location
    /\ Size(iodaVars.obsVal) = iodaVars.location * iodaVars.channel
    /\ Size(iodaVars.preQc) = iodaVars.location * iodaVars.channel

C3_Witness ==
  /\ Decoded
  /\ iodaVars.location >= 2
  /\ iodaVars.location < Cardinality(GridCells)
  /\ iodaVars.channel >= 2

C5_ZeroKeepsAllOneKeepsNone ==
  CountPassDone =>
    /\ config.threshold = 0 => iodaVars.location = dims.spot * dims.scan
    /\ config.threshold = Scale => iodaVars.location = 0

\* C5, amended: threshold 0 keeps exactly the cells whose draw is not 0, the
\* lower end of the uniform range; threshold 1 keeps none.
C5_ZeroKeepsNonzeroDraws ==
  CountPassDone =>
    /\ config.threshold = 0 =>
         /\ countSel = {c \in GridCells : Draw(c[1] * dims.scan + c[2]) # 0}
         /\ iodaVars.location = Cardinality(countSel)
    /\ config.threshold = Scale => iodaVars.location = 0 /\ countSel = {}

C5_Witness ==
  /\ CountPassDone
  /\ config.threshold = 0
  /\ 0 < iodaVars.location
  /\ iodaVars.location < dims.spot * dims.scan

\* the channel numbers each configured string stands for
ExpectedChannels(str) ==
  CASE str = <<"1">> -> <<1>>
    [] str = <<"2", ",", "2", ",", "1">> -> <<2, 2, 1>>
    [] str = <<"0">> -> <<0>>
    [] str = <<"1", "x">> -> <<1>>
    [] str = <<>> -> <<>>

\* C6: channelValues has length channelCount, the number of comma-delimited
\* tokens, and channelValues[i] is the i-th token: order kept, duplicates kept.
C6_ChannelValuesAreTokens ==
  Decoded =>
    LET want == ExpectedChannels(config.channel)
    IN /\ iodaVars.channel = Len(want)
       /\ Size(iodaVars.channelValues) = iodaVars.channel
       /\ \A i \in 0..(Len(want) - 1) : iodaVars.channelValues[i] = want[i + 1]

(***************************************************************************)
(* Properties of createRepackedFlag.                                       *)
(***************************************************************************)
\* C7: the result has the length of rawflag and, cell by cell, is 1 exactly
\* when (rawflag[i] & MASK_ALL) # 0 or flag1[i] # 0, else 0; a cell's result
\* depends neither on the other cells nor on an earlier call.
C7_RepackPerCell ==
  /\ Len(new_flags) = Len(rawflag)
  /\ \A n \in 1..fi :
       new_flags[n] = IF BitAnd(rawflag[n], MASK_ALL) # 0 \/ flag1[n] # 0 THEN 1 ELSE 0
  /\ (flagCall = 2 /\ FlagDone) =>
       \A n \in 1..Len(rawflag) : new_flags[n] = firstFlags[Len(rawflag) + 1 - n]

C7_Witness ==
  /\ flagCall = 2
  /\ FlagDone
  /\ Len(rawflag) >= 2
  /\ \E n, m \in 1..Len(rawflag) :
       /\ new_flags[n] = 1 /\ BitAnd(rawflag[n], MASK_ALL) # 0 /\ flag1[n] = 0
       /\ new_flags[m] = 0

\* 1-based bit positions of the quality word that stand for a defect
MappedBits == {3, 4, 5, 6, 7, 8, 9, 13, 14, 15}

\* C8: with flag1 = 0, a word with one mapped bit set (1-based 3, 4, 5, 6, 7,
\* 8, 9, 13, 14 or 15) gives 1, and a word with only unmapped bits set (1, 2,
\* 10, 11, 12, 16), or none, gives 0.
C8_MappedBitsOnly ==
  \A n \in 1..fi :
    flag1[n] = 0 =>
      /\ (\E b \in MappedBits : rawflag[n] = Pow2(b - 1)) => new_flags[n] = 1
      /\ (\A b \in MappedBits : BitOf(rawflag[n], b - 1) = 0) => new_flags[n] = 0

C8_Witness ==
  /\ fi >= 1
  /\ flag1[1] = 0
  /\ \/ rawflag[1] = ReservedWord /\ new_flags[1] = 0
     \/ rawflag[1] = Pow2(12) /\ new_flags[1] = 1

(***************************************************************************)
(* Properties of the scan-time conversion.                                 *)
(***************************************************************************)
\* days from 1970-01-01 to the first of January of year y >= 1970
DaysToYear(y) == 365 * (y - 1970) + Cardinality({z \in 1970..(y - 1) : IsLeap(z)})

RECURSIVE DaysToMonth(_, _)
DaysToMonth(y, m) == IF m <= 1 THEN 0 ELSE DaysToMonth(y, m - 1) + MonthLen(y, m - 1)

\* seconds since 1970-01-01T00:00:00Z of the UTC components, second 60 read
\* as 59
ReferenceEpoch(c) ==
  TimeT(DaysToYear(c.year) + DaysToMonth(c.year, c.month) + (c.day - 1),
        (c.hour * 60 + c.minute) * 60 + (IF c.second = 60 THEN 59 ELSE c.second))

Epoch1970 ==
  [year |-> 1970, month |-> 1, day |-> 1, hour |-> 0, minute |-> 0, second |-> 0]

\* C9: in every decoder the conversion of (year, month, day, hour, minute,
\* second) gives the seconds since 1970-01-01T00:00:00Z of that UTC time, second
\* 60 counted as 59: (1970,1,1,0,0,0) gives 0 and (1970,1,1,0,0,60) gives 59.
C9_EpochMatchesReference ==
  tpc = "done" =>
    /\ (ValidDate(tcomp) /\ tcomp.second < 60) => tepoch = ReferenceEpoch(tcomp)
    /\ tcomp = Epoch1970 => tepoch = TimeT(0, 0)
    /\ tcomp = [Epoch1970 EXCEPT !.second = 60] => tepoch = TimeT(0, 59)

\* C10: in every decoder a scan with second 60 gets the epoch time of the same
\* scan with second 59.
C10_LeapSecondAs59 ==
  (tpc = "done" /\ tcomp.second = 60) =>
    tepoch = EpochOf(tprov, [tcomp EXCEPT !.second = 59])

(***************************************************************************)
(* Failure paths of providerToIodaVars.                                    *)
(***************************************************************************)
FileReads == {"getDim", "getVar"}
Happened(e) == \E n \in 1..Len(events) : events[n] = e

\* C11: when the file cannot be opened the call logs a warning and returns an
\* empty, well-formed table of 0 locations; it raises nothing and reads no
\* dimension and no variable of the file.
C11_OpenFailureGivesEmptyTable ==
  ncFile.defect = "unreadable" =>
    /\ outcome # "threw"
    /\ \A e \in FileReads : ~Happened(e)
    /\ pc = "done" =>
         /\ outcome = "returned"
         /\ Happened("warning")
         /\ iodaVars.location = 0
         /\ Size(iodaVars.latitude) = 0 /\ Size(iodaVars.longitude) = 0
         /\ Size(iodaVars.datetime) = 0
         /\ Size(iodaVars.obsVal) = 0 /\ Size(iodaVars.preQc) = 0
         /\ dims = NoDims /\ buf = NoBuf

C11_Witness ==
  /\ ncFile.defect = "unreadable"
  /\ run = 2
  /\ pc = "done"
  /\ outcome = "returned"
  /\ events = <<"open", "NcException", "warning">>

\* C12: a file that opens but lacks a required dimension or a required
\* variable yields a table of 0 locations, and no exception leaves
\* providerToIodaVars.
C12_MissingNameGivesEmptyTable ==
  (pc = "done" /\ ncFile.defect \in DimNames \cup RequiredVars(provider)) =>
    /\ outcome = "returned"
    /\ iodaVars.location = 0

\* cells of the file the thinner keeps when every draw is compared once
FileCells == {<<i, j>> : i \in 0..(ncFile.spots - 1), j \in 0..(ncFile.scans - 1)}
KeptOfFile ==
  {c \in FileCells : Draw(c[1] * ncFile.scans + c[2]) > config.threshold}
AngleNames == {AngleVars[n] : n \in 1..Len(AngleVars)}

\* C13: when an angle variable (optional metadata) is absent from an otherwise
\* valid file, the decode completes with the locationCount it has with the
\* variable present, and the metadata column of that variable holds one and
\* the same value, the fill value, at every location.
C13_MissingAngleIsFilled ==
  (pc = "done" /\ ncFile.defect \in AngleNames /\ ParseChannelList(config.channel).ok) =>
    /\ outcome = "returned"
    /\ iodaVars.location = Cardinality(KeptOfFile)
    /\ \A n \in 1..Len(AngleVars) :
         AngleVars[n] = ncFile.defect =>
           /\ n \in 1..Len(iodaVars.floatMetadataName)
           /\ \A l, m \in DOMAIN iodaVars.floatMetadata :
                iodaVars.floatMetadata[l][n] = iodaVars.floatMetadata[m][n]

\* a token is a valid integer iff it is an optional sign followed by one or
\* more decimal digits and nothing else
ValidToken(tok) ==
  LET body == IF tok # <<>> /\ Head(tok) \in {"+", "-"} THEN Tail(tok) ELSE tok
  IN body # <<>> /\ \A n \in 1..Len(body) : IsDigit(body[n])
AllTokensValid(str) ==
  LET toks == GetLines(str, <<>>) IN \A n \in 1..Len(toks) : ValidToken(toks[n])

\* C14: when some comma-delimited token of the channel string is not a valid
\* integer, channel parsing fails and no table is produced from that
\* configuration: the call never gets past the parsing of the channel list.
C14_InvalidTokenRejected ==
  ~AllTokensValid(config.channel) =>
    /\ pc \notin {"thin", "count", "chanvals", "fill"}
    /\ ~Decoded

FileTouches == {"open", "getDim", "getVar"}

\* C15: a configuration error stops processing before any file is touched:
\* whenever one is reported, no open, no dimension read and no variable read
\* has happened before it.
C15_ConfigErrorBeforeFile ==
  \A n \in 1..Len(events) :
    events[n] = "invalid_argument" =>
      \A m \in 1..(n - 1) : events[m] \notin FileTouches

\* C16: a thinning.threshold outside [0, 1] is rejected: no inclusion mask is
\* computed and no table is produced with it.
C16_ThresholdOutOfRangeRejected ==
  config.threshold \notin 0..Scale =>
    /\ pc \notin {"count", "chanvals", "fill"}
    /\ countSel = {}
    /\ ~Decoded

\* C17: no buffer is read for a channel value outside 1..channelsInFile: every
\* index the fill pass reads lies inside the buffer and inside the channel
\* block of the cell being written.
C17_ReadsStayInCellBlock ==
  \A r \in srcRead :
    LET c == r[1]
        idx == r[2]
    IN /\ idx \in 0..(dims.spot * dims.scan * dims.chan - 1)
       /\ idx \in (FlatIdx(c) * dims.chan)..(FlatIdx(c) * dims.chan + dims.chan - 1)

(***************************************************************************)
(* Range checks expected of the scan-time conversion.                      *)
(***************************************************************************)
InBounds(c) ==
  /\ c.year \in 1970..2100
  /\ c.month \in 1..12
  /\ c.day \in 1..MonthLen(c.year, c.month)
  /\ c.hour \in 0..23
  /\ c.minute \in 0..59
  /\ c.second \in 0..60

\* a tuple with a day outside its month
Feb31 == [year |-> 1970, month |-> 2, day |-> 31, hour |-> 0, minute |-> 0, second |-> 0]

\* C18: a scan whose time variables hold an out-of-bounds calendar component
\* gets the provider fill value as its datetime; so every out-of-bounds tuple
\* converts to one and the same value, the one 1970-02-31 converts to.
C18_OutOfBoundsGivesFill ==
  (tpc = "done" /\ ~InBounds(tcomp)) => tepoch = EpochOf(tprov, Feb31)

(***************************************************************************)
(* The two passes of the thinner.                                          *)
(***************************************************************************)
\* C19: the fill pass writes rows 0, 1, ..., locationCount-1 in this order: no
\* row index reaches the locationCount the table was allocated with, and when
\* the pass has ended every allocated row has been written.
C19_RowsAreExactlyAllocated ==
  /\ \A n \in 1..Len(rowOf) :
       /\ rowOf[n][2] = n - 1
       /\ rowOf[n][2] < iodaVars.location
  /\ Decoded => Len(rowOf) = iodaVars.location

\* C20: one stream, seeded once, is advanced exactly once per cell, spot outer
\* and scan inner, spots*scans draws per decode, and cell (i, j) is included
\* iff draw number i*scanCount + j is greater than the threshold.
C20_OneDrawPerCell ==
  Decoded =>
    /\ genPos = dims.spot * dims.scan
    /\ countSel = KeptOfFile
    /\ fillSel = KeptOfFile

(***************************************************************************)
(* Phases of a decode.                                                     *)
(***************************************************************************)
Times(e) == Cardinality({n \in 1..Len(events) : events[n] = e})
\* every e comes before every f
AllBefore(e, f) ==
  \A n, m \in 1..Len(events) : (events[n] = e /\ events[m] = f) => n < m

\* C21: a successful decode goes through Opened, DimensionsRead, BuffersRead,
\* MaskComputed, TableFilled, Done in this order, each once: the file is
\* opened once, dimensions are read before variables, the table is allocated
\* only after the counting pass, the mask is computed once (one draw per cell)
\* before any row is written; an open failure goes directly to Done.
C21_PhasesOnceInOrder ==
  /\ Decoded =>
       /\ Times("open") = 1
       /\ AllBefore("open", "getDim")
       /\ AllBefore("getDim", "getVar")
       /\ AllBefore("getVar", "get thinning.threshold")
       /\ genPos = dims.spot * dims.scan
  /\ (iodaVars.location > 0 \/ rowOf # <<>>) => pc \in {"chanvals", "fill", "done"}
  /\ (pc = "done" /\ ncFile.defect = "unreadable") =>
       events = <<"open", "NcException", "warning">>

(***************************************************************************)
(* Content of the rows the fill pass wrote.                                *)
(***************************************************************************)
\* <<cell, row>> pairs of the rows written inside the table
RowsWritten == {rowOf[n] : n \in {m \in 1..Len(rowOf) : rowOf[m][2] < iodaVars.location}}

\* C22: every PreQC entry written is the flag codec's output for its cell and
\* channel, 0 (good) or 1 (bad); no raw quality bitmask is stored in PreQC.
C22_PreQcIsZeroOrOne ==
  (Decoded /\ ChannelsInRange) =>
    \A r \in RowsWritten : \A k \in 0..(nchan - 1) :
      iodaVars.preQc[nchan * r[2] + k] \in {0, 1}

\* the file variable a metadata name stands for
SourceOf(name) ==
  CASE name = "lunarAzimuthAngle" -> "lunar_azimuth_angle"
    [] name = "lunarZenithAngle" -> "lunar_zenith_angle"
    [] name = "sensorAzimuthAngle" -> "sensor_azimuth_angle"
    [] name = "sensorViewAngle" -> "sensor_view_angle"
    [] name = "sensorZenithAngle" -> "sensor_zenith_angle"
    [] name = "solarAzimuthAngle" -> "solar_azimuth_angle"
    [] name = "solarZenithAngle" -> "solar_zenith_angle"
\* the value the file holds for variable v at a flat index
FileValue(v, flat) ==
  FileAngle(CHOOSE n \in 1..Len(AngleVars) : AngleVars[n] = v, flat)

\* C23: for the row loc written for grid cell (i, j), latitude[loc] and
\* longitude[loc] are the sources at i*scanCount + j, and each named float
\* metadata column holds the like-named source variable at that index; in
\* Tmsrad2Ioda the seven columns exist and the rows are the retained cells in
\* grid order.
C23_PerLocationFromOwnCell ==
  Decoded =>
    /\ \A r \in RowsWritten :
         LET l == r[2]
             flat == r[1][1] * ncFile.scans + r[1][2]
         IN /\ iodaVars.latitude[l] = FileLat(flat)
            /\ iodaVars.longitude[l] = FileLon(flat)
            /\ \A n \in 1..Len(iodaVars.floatMetadataName) :
                 iodaVars.floatMetadata[l][n]
                   = FileValue(SourceOf(iodaVars.floatMetadataName[n]), flat)
    /\ provider = "Tmsrad2Ioda" =>
         /\ Len(iodaVars.floatMetadataName) = 7
         /\ RowsWritten = {<<c, RankIn(c, countSel)>> : c \in countSel}

C23_Witness ==
  /\ Decoded
  /\ provider = "Tmsrad2Ioda"
  /\ iodaVars.location >= 2
  /\ \E r \in RowsWritten : r[2] # r[1][1] * ncFile.scans + r[1][2]

\* C24: the datetime of a row depends only on the scan index of its cell: it is
\* the decoder's conversion of the j-th entries of the six time variables, so
\* two rows of the same scan have the same datetime whatever their spot.
C24_DatetimePerScan ==
  Decoded =>
    /\ \A r \in RowsWritten :
         iodaVars.datetime[r[2]] = timegm(TmOf(provider, FileTime(r[1][2])))
    /\ \A r, q \in RowsWritten :
         r[1][2] = q[1][2] => iodaVars.datetime[r[2]] = iodaVars.datetime[q[2]]

C24_Witness ==
  /\ Decoded
  /\ \E r, q \in RowsWritten :
       /\ r[1][2] = q[1][2] /\ r[1][1] # q[1][1]
       /\ iodaVars.datetime[r[2]] = iodaVars.datetime[q[2]]
  /\ \E r, q \in RowsWritten : iodaVars.datetime[r[2]] # iodaVars.datetime[q[2]]

\* C25: for every row the fill pass wrote and every selected channel, observed
\* value, observation error and PreQC have all been assigned: none is left at
\* the value it had right after the table was constructed.
C25_AllPerCellColumnsAssigned ==
  (Decoded /\ ChannelsInRange) =>
    \A r \in RowsWritten : \A k \in 0..(nchan - 1) :
      /\ iodaVars.obsVal[nchan * r[2] + k] # Unset
      /\ iodaVars.obsError[nchan * r[2] + k] # Unset
      /\ iodaVars.preQc[nchan * r[2] + k] # Unset

\* C26: every open attempt of a call is covered by the open-failure handling:
\* if the file is unreadable at any open of the decode, also after an earlier
\* open of the same call succeeded, the call returns the empty table of 0
\* locations and no exception escapes.
C26_EveryOpenIsGuarded ==
  (pc = "done" /\ ncFile.defect \in Unopenable) =>
    /\ outcome = "returned"
    /\ iodaVars.location = 0

KeptAt(t) == {c \in FileCells : Draw(c[1] * ncFile.scans + c[2]) > t}

\* C28: thinning is monotone in the threshold: with the same seed and grid,
\* the cells selected under a threshold are among those selected under any
\* smaller threshold and contain those selected under any larger one, so
\* locationCount(t2) <= locationCount(t1) <= spots*scans for t1 <= t2.
C28_MonotoneInThreshold ==
  CountPassDone =>
    /\ countSel = KeptAt(config.threshold)
    /\ \A t \in Thresholds :
         /\ t <= config.threshold => countSel \subseteq KeptAt(t)
         /\ t >= config.threshold => KeptAt(t) \subseteq countSel
    /\ iodaVars.location = Cardinality(countSel)
    /\ iodaVars.location <= ncFile.spots * ncFile.scans

C28_Witness ==
  /\ CountPassDone
  /\ countSel # {}
  /\ \E t \in Thresholds :
       t < config.threshold /\ countSel # KeptAt(t) /\ countSel \subseteq KeptAt(t)

\* the assignments made so far to a column
TbrWritesTo(column) ==
  {n \in 1..Len(tbrWrites) : tbrWrites[n].column = column}

PerLocationColumns == {"longitude", "latitude", "datetime"}

\* C29: every decoder addresses the grid alike: the outer index is the spot
\* index and stays below the spot count, the inner index is the scan index
\* and stays below the scan count, a 2-D variable is read at
\* spot*scanCount + scan, and an entry of a per-location column is
\* assigned once, not once per channel.
C29_OneGridConvention ==
  /\ tbrPc = "cell" => tbrIJ[1] < tbrDims.dim0 /\ tbrIJ[2] < tbrDims.dim1
  /\ \A n \in TbrWritesTo("longitude") :
       tbrWrites[n].src = <<tbrWrites[n].i * tbrDims.dim1 + tbrWrites[n].j>>
  /\ \A col \in PerLocationColumns : \A n, m \in TbrWritesTo(col) :
       tbrWrites[n].at = tbrWrites[m].at => n = m

====
